---- MODULE Spec2Model ----
(***************************************************************************)
(* Query processor of tiedot (package db in src/benchmark.go, lines        *)
(* 274-585) and the goroutines of benchmark2 that run it concurrently.     *)
(*                                                                         *)
(* Part 1 models the values the processor works on: JSON values as Go's    *)
(* encoding/json decodes them, fmt.Sprint, strconv.ParseInt, the string    *)
(* hash, the path resolver and the partitioned hash tables.                *)
(* Part 2 is the evaluator, one operator per Go function.                  *)
(* Part 3 is the state: specification Spec evaluates one query.            *)
(* Part 4 states the claims about one evaluation.                          *)
(* Part 5 runs the evaluator step by step in the goroutines of benchmark2: *)
(* SpecQueries on a collection nobody changes, SpecMutators beside the     *)
(* goroutines that insert, update and delete documents and change the      *)
(* indexes under their write locks.                                        *)
(* Part 6 states the claims about the goroutines.                          *)
(***************************************************************************)
EXTENDS Integers, Sequences, FiniteSets, TLC

VARIABLES
    col,      \* the collection
    query,    \* Spec: the query evaluated
    acc0,     \* Spec: what the result map held before the call
    out,      \* Spec: the evaluation state after the call
    phase,    \* Spec: "ready" before the call, "done" after it
    threads,  \* the query goroutines: query, call stack, sub-result maps, error
    results,  \* the result maps the goroutines made
    locks,    \* the RWMutex of every hash table: readers and writer
    mut       \* the goroutines that insert, update and delete

vars == <<col, query, acc0, out, phase, threads, results, locks, mut>>

pvars == <<query, acc0, out, phase>>

(***************************************************************************)
(* Part 1a. JSON values.  json.Unmarshal into interface{} yields float64,  *)
(* string, bool, nil, []interface{} and map[string]interface{}.  A float64 *)
(* is kept in tenths (v = 15 is 1.5), so that int(f) truncates and         *)
(* fmt.Sprint(f) prints a fraction.                                        *)
(***************************************************************************)
Float(x10) == [ty |-> "float64", v |-> x10]
Num(n) == Float(10 * n)
Str(s) == [ty |-> "string", v |-> s]
Bool(b) == [ty |-> "bool", v |-> b]
Nil == [ty |-> "nil", v |-> 0]
Arr(a) == [ty |-> "slice", v |-> a]
Map(m) == [ty |-> "map", v |-> m]

\* int(f) for a float64 f: truncation toward zero.
FloatToInt(x10) == IF x10 >= 0 THEN x10 \div 10 ELSE -((-x10) \div 10)

Digit(d) == SubSeq("0123456789", d + 1, d + 1)

RECURSIVE NatStr(_)
NatStr(n) == IF n < 10 THEN Digit(n) ELSE NatStr(n \div 10) \o Digit(n % 10)

\* fmt.Sprint of an int.
IntStr(n) == IF n < 0 THEN "-" \o NatStr(-n) ELSE NatStr(n)

\* A digit string without its trailing zeros.
RECURSIVE StripZeros(_)
StripZeros(s) ==
    IF Len(s) > 1 /\ SubSeq(s, Len(s), Len(s)) = "0"
    THEN StripZeros(SubSeq(s, 1, Len(s) - 1))
    ELSE s

\* fmt.Sprint of a float64 (%v is %g with the shortest digits): 7 prints
\* "7", 1.5 prints "1.5", and a magnitude of 1e+06 or more prints with an
\* exponent, 1000000 as "1e+06", 1234567 as "1.234567e+06".  (A magnitude
\* under 0.0001 would too; the tenths kept here do not go below 0.1.)
FloatStr(x10) ==
    LET a == IF x10 < 0 THEN -x10 ELSE x10
        sign == IF x10 < 0 THEN "-" ELSE ""
        exp == Len(NatStr(a \div 10)) - 1
        mant == StripZeros(NatStr(a))
    IN  IF exp < 6
        THEN sign \o NatStr(a \div 10)
                \o (IF a % 10 = 0 THEN "" ELSE "." \o Digit(a % 10))
        ELSE sign \o SubSeq(mant, 1, 1)
                \o (IF Len(mant) > 1 THEN "." \o SubSeq(mant, 2, Len(mant)) ELSE "")
                \o "e+" \o (IF exp < 10 THEN "0" ELSE "") \o NatStr(exp)

RECURSIVE JoinStr(_, _)
JoinStr(strs, sep) ==
    IF Len(strs) = 0 THEN ""
    ELSE IF Len(strs) = 1 THEN strs[1]
    ELSE strs[1] \o sep \o JoinStr(Tail(strs), sep)

IsDigit(c) == \E d \in 0..9 : Digit(d) = c

DigitVal(c) == CHOOSE d \in 0..9 : Digit(d) = c

\* The ASCII code of a character (digits, letters and the punctuation that
\* fmt.Sprint and the queries of the model produce).
Punct ==
    [c \in {" ", "+", ",", "-", ".", ":", "<", ">", "[", "]", "_"} |->
        CASE c = " " -> 32 [] c = "+" -> 43 [] c = "," -> 44 [] c = "-" -> 45
          [] c = "." -> 46 [] c = ":" -> 58 [] c = "<" -> 60 [] c = ">" -> 62
          [] c = "[" -> 91 [] c = "]" -> 93 [] c = "_" -> 95]

Lower == "abcdefghijklmnopqrstuvwxyz"

Code(c) ==
    IF IsDigit(c) THEN 48 + DigitVal(c)
    ELSE IF c \in DOMAIN Punct THEN Punct[c]
    ELSE 96 + (CHOOSE i \in 1..26 : SubSeq(Lower, i, i) = c)

\* a < b for two strings, byte by byte.
RECURSIVE StrLess(_, _)
StrLess(a, b) ==
    IF b = "" THEN FALSE
    ELSE IF a = "" THEN TRUE
    ELSE IF Head(a) # Head(b) THEN Code(Head(a)) < Code(Head(b))
    ELSE StrLess(Tail(a), Tail(b))

\* The keys of a map in the order fmt prints them: sorted.
RECURSIVE KeySeq(_)
KeySeq(ks) ==
    IF ks = {} THEN <<>>
    ELSE LET k == CHOOSE x \in ks : \A y \in ks \ {x} : StrLess(x, y)
         IN  <<k>> \o KeySeq(ks \ {k})

\* fmt.Sprint of a decoded JSON value.
RECURSIVE Sprint(_)
Sprint(x) ==
    CASE x.ty = "float64" -> FloatStr(x.v)
      [] x.ty = "string" -> x.v
      [] x.ty = "bool" -> IF x.v THEN "true" ELSE "false"
      [] x.ty = "nil" -> "<nil>"
      [] x.ty = "slice" ->
            "[" \o JoinStr([i \in 1..Len(x.v) |-> Sprint(x.v[i])], " ") \o "]"
      [] x.ty = "map" ->
            LET ks == KeySeq(DOMAIN x.v)
            IN  "map[" \o JoinStr([i \in 1..Len(ks) |->
                                      ks[i] \o ":" \o Sprint(x.v[ks[i]])], " ") \o "]"

RECURSIVE DigitsVal(_, _)
DigitsVal(s, acc) ==
    IF s = "" THEN acc ELSE DigitsVal(Tail(s), 10 * acc + DigitVal(Head(s)))

\* strconv.ParseInt(s, 10, 64): an optional sign, then one or more digits.
\* (The strings of the model are too short to leave the 64-bit range.)
ParseInt(s) ==
    LET signed == s # "" /\ Head(s) \in {"+", "-"}
        digits == IF signed THEN Tail(s) ELSE s
        ok == digits # "" /\ \A i \in 1..Len(digits) : IsDigit(SubSeq(digits, i, i))
    IN  IF ~ok THEN [ok |-> FALSE, n |-> 0]
        ELSE [ok |-> TRUE,
              n |-> IF signed /\ Head(s) = "-" THEN -DigitsVal(digits, 0)
                    ELSE DigitsVal(digits, 0)]

\* The hash keeps its low bits only, so that distinct strings collide.
HashMod == 64

\* StrHash: hash = c + (hash << 6) + (hash << 16) - hash over the characters.
RECURSIVE StrHashFrom(_, _)
StrHashFrom(s, hash) ==
    IF s = "" THEN hash
    ELSE StrHashFrom(Tail(s), (Code(Head(s)) + hash * 65599) % HashMod)

StrHash(s) == StrHashFrom(s, 0)

\* Separator of the segments of an index path.
INDEX_PATH_SEP == ","

(***************************************************************************)
(* Part 1b. The path resolver: descend one segment at a time, through      *)
(* arrays element by element; a key that is absent reads as nil.           *)
(***************************************************************************)
RECURSIVE FlatMap(_, _, _)
RECURSIVE GetInFrom(_, _)
FlatMap(elems, path, i) ==
    IF i > Len(elems) THEN <<>>
    ELSE (IF elems[i].ty = "map" THEN GetInFrom(elems[i], path) ELSE <<>>)
            \o FlatMap(elems, path, i + 1)

GetInFrom(thing, path) ==
    IF Len(path) = 0
    THEN IF thing.ty = "slice" THEN thing.v ELSE <<thing>>
    ELSE CASE thing.ty = "map" ->
                GetInFrom(IF Head(path) \in DOMAIN thing.v
                          THEN thing.v[Head(path)] ELSE Nil, Tail(path))
           [] thing.ty = "slice" -> FlatMap(thing.v, path, 1)
           [] OTHER -> <<>>

GetIn(doc, path) == IF doc.ty = "map" THEN GetInFrom(doc, path) ELSE <<>>

(***************************************************************************)
(* Part 1c. The collection.  A collection src is a record                  *)
(*   docs           id -> document, for the ids that col.Read can read     *)
(*   indexPaths     the joined paths that are indexed                      *)
(*   hts            partition -> joined path -> hash table                 *)
(*   numParts       the number of partitions                               *)
(*   approxDocCount what col.ApproxDocCount() returns                      *)
(* and a hash table is the sequence of its <<key, id>> entries.            *)
(***************************************************************************)
\* ht.Get(key, limit): the ids stored under key, the first limit of them
\* when limit > 0.
RECURSIVE GetFrom(_, _, _, _, _)
GetFrom(ht, i, key, limit, vals) ==
    IF i > Len(ht) THEN vals
    ELSE IF ht[i][1] # key THEN GetFrom(ht, i + 1, key, limit, vals)
    ELSE LET more == Append(vals, ht[i][2])
         IN  IF Len(more) = limit THEN more
             ELSE GetFrom(ht, i + 1, key, limit, more)

Get(ht, key, limit) == GetFrom(ht, 1, key, limit, <<>>)

\* ht.GetPartition(partNum, totalPart): the ids of the partNum-th of
\* totalPart contiguous chunks of the table.
GetPartition(ht, partNum, totalPart) ==
    LET lo == (partNum * Len(ht)) \div totalPart
        hi == ((partNum + 1) * Len(ht)) \div totalPart
    IN  [i \in 1..(hi - lo) |-> ht[lo + i][2]]

\* col.Read(id) succeeds for the ids of src.docs.
CanRead(src, id) == id \in DOMAIN src.docs

\* col.ForEachDoc visits every live id.
AllIDs(src) == DOMAIN src.docs

(***************************************************************************)
(* Part 2. The evaluator.  An evaluation state st is a record              *)
(*   result  the set *result points to                                     *)
(*   err     the error returned ("" is nil)                                *)
(*   log     the operations made on the collection so far, in order        *)
(***************************************************************************)
\* The errors, by the fixed words of their messages: the values printed into
\* them and the accents around the names are left out.
ErrNotDocID == "is not a document PK ID"
ErrMissingIn == "Missing lookup path in"
ErrVectorIn == "Expecting vector lookup path in"
ErrLimit == "Expecting limit as a number"
ErrIndex == "Please index and retry query"
ErrVectorPath == "Expecting vector path"
ErrRangeMissingIn == "Missing path in"
ErrRangeVectorIn == "Expecting vector path in"
ErrSubQueries == "Expecting a vector of sub-queries"
ErrIntFrom == "Expecting int-from as an integer"
ErrIntTo == "Expecting int-to as an integer"
ErrMissingIntTo == "Missing int-to"
ErrNoOperation == "Query does not contain any operation"

Fail(st, e) == [st EXCEPT !.err = e]

EvRLock(part, idx) == [op |-> "RLock", part |-> part, idx |-> idx, arg |-> 0]
EvRUnlock(part, idx) == [op |-> "RUnlock", part |-> part, idx |-> idx, arg |-> 0]
EvGet(part, idx, key) == [op |-> "Get", part |-> part, idx |-> idx, arg |-> key]
EvGetPartition(part, idx, i) ==
    [op |-> "GetPartition", part |-> part, idx |-> idx, arg |-> i]
EvRead(id) == [op |-> "Read", part |-> 0, idx |-> "", arg |-> id]
EvForEachDoc == [op |-> "ForEachDoc", part |-> 0, idx |-> "", arg |-> 0]

\* Lookup, lines 331-333 (and 373-375, 514-516): the path is not indexed.
Unindexed_Silent(st) == st

Unindexed(st) == Fail(st, ErrIndex)

\* The in or has vector as strings: fmt.Sprint of each element.
VecPath(path) == [i \in 1..Len(path.v) |-> Sprint(path.v[i])]

HasNumericLimit(expr) == "limit" \in DOMAIN expr => expr["limit"].ty = "float64"

IntLimit(expr) ==
    IF "limit" \in DOMAIN expr THEN FloatToInt(expr["limit"].v) ELSE 0

\* Put all document IDs into result.
EvalAllIDs(src, st) ==
    [st EXCEPT !.result = @ \cup AllIDs(src), !.log = Append(@, EvForEachDoc)]

LookupMatches_Unfiltered(vals, vecPath, lookupStrValue, src) ==
    {vals[i] : i \in 1..Len(vals)}

\* Lookup, lines 339-348: the candidates whose document can be read and has
\* the looked-up value at the path.
LookupMatches(vals, vecPath, lookupStrValue, src) ==
    {vals[i] : i \in {j \in 1..Len(vals) :
        /\ CanRead(src, vals[j])
        /\ \E k \in 1..Len(GetIn(src.docs[vals[j]], vecPath)) :
              Sprint(GetIn(src.docs[vals[j]], vecPath)[k]) = lookupStrValue}}

\* Lookup, lines 307-327: the error of a malformed expression ("" for none).
LookupArgsErr(expr) ==
    IF "in" \notin DOMAIN expr THEN ErrMissingIn
    ELSE IF expr["in"].ty # "slice" THEN ErrVectorIn
    ELSE IF ~HasNumericLimit(expr) THEN ErrLimit
    ELSE ""

\* Value equity check ("attribute == value") using hash lookup.
Lookup(lookupValue, expr, src, st) ==
    IF LookupArgsErr(expr) # "" THEN Fail(st, LookupArgsErr(expr))
    ELSE
      LET vecPath == VecPath(expr["in"])
          intLimit == IntLimit(expr)
          lookupStrValue == Sprint(lookupValue)
          lookupValueHash == StrHash(lookupStrValue)
          scanPath == JoinStr(vecPath, INDEX_PATH_SEP)
      IN  IF scanPath \notin src.indexPaths THEN Unindexed(st)
          ELSE
            LET num == lookupValueHash % src.numParts
                vals == Get(src.hts[num][scanPath], lookupValueHash, intLimit)
            IN  [st EXCEPT
                   !.result = @ \cup LookupMatches(vals, vecPath, lookupStrValue, src),
                   !.log = @ \o <<EvRLock(num, scanPath),
                                  EvGet(num, scanPath, lookupValueHash),
                                  EvRUnlock(num, scanPath)>>
                             \o [i \in 1..Len(vals) |-> EvRead(vals[i])]]

\* PathExistence, lines 386-393: insert the ids of one chunk, counting, and
\* stop when the counter reaches the limit.
RECURSIVE ScanIDs(_, _, _, _)
ScanIDs(ids, i, intLimit, sc) ==
    IF i > Len(ids) THEN sc
    ELSE LET next == [result |-> sc.result \cup {ids[i]},
                      counter |-> sc.counter + 1, hit |-> FALSE]
         IN  IF next.counter = intLimit THEN [next EXCEPT !.hit = TRUE]
             ELSE ScanIDs(ids, i + 1, intLimit, next)

\* PathExistence, lines 384-394: the chunks of one partition from chunk i on.
RECURSIVE ScanChunks(_, _, _, _, _, _, _)
ScanChunks(src, jointPath, iteratePart, i, partDiv, intLimit, hs) ==
    IF i >= partDiv THEN hs
    ELSE
      LET ids == GetPartition(src.hts[iteratePart][jointPath], i, partDiv)
          sc == ScanIDs(ids, 1, intLimit,
                        [result |-> hs.result, counter |-> hs.counter, hit |-> FALSE])
          after == [result |-> sc.result, counter |-> sc.counter, hit |-> sc.hit,
                    log |-> Append(hs.log, EvGetPartition(iteratePart, jointPath, i))]
      IN  IF sc.hit THEN after
          ELSE ScanChunks(src, jointPath, iteratePart, i + 1, partDiv, intLimit, after)

\* PathExistence, lines 381-396: the partitions from iteratePart on, each
\* under its read lock.
RECURSIVE ScanParts(_, _, _, _, _, _)
ScanParts(src, jointPath, iteratePart, partDiv, intLimit, hs) ==
    IF iteratePart >= src.numParts THEN hs
    ELSE
      LET locked == [hs EXCEPT !.log = Append(@, EvRLock(iteratePart, jointPath))]
          scanned == ScanChunks(src, jointPath, iteratePart, 0, partDiv, intLimit, locked)
          unlocked == [scanned EXCEPT !.log = Append(@, EvRUnlock(iteratePart, jointPath))]
      IN  IF scanned.hit THEN unlocked
          ELSE ScanParts(src, jointPath, iteratePart + 1, partDiv, intLimit, unlocked)

\* collect approx. 4k document IDs in each iteration
PartDiv(src) ==
    LET partDiv == (src.approxDocCount \div src.numParts) \div 4000
    IN  IF partDiv = 0 THEN partDiv + 1 ELSE partDiv

\* PathExistence, lines 355-371: the error of a malformed expression.
PathExistenceArgsErr(hasPath, expr) ==
    IF hasPath.ty # "slice" THEN ErrVectorPath
    ELSE IF ~HasNumericLimit(expr) THEN ErrLimit
    ELSE ""

\* Value existence check (value != nil) using hash lookup.
PathExistence(hasPath, expr, src, st) ==
    IF PathExistenceArgsErr(hasPath, expr) # ""
    THEN Fail(st, PathExistenceArgsErr(hasPath, expr))
    ELSE
      LET vecPath == VecPath(hasPath)
          intLimit == IntLimit(expr)
          jointPath == JoinStr(vecPath, INDEX_PATH_SEP)
      IN  IF jointPath \notin src.indexPaths THEN Unindexed(st)
          ELSE
            LET hs == ScanParts(src, jointPath, 0, PartDiv(src), intLimit,
                                [result |-> st.result, counter |-> 0,
                                 hit |-> FALSE, log |-> st.log])
            IN  [st EXCEPT !.result = hs.result, !.log = hs.log]

IntersectFold_NoFirst(first, result, subResult) ==
    {k \in subResult : k \in result}

\* Intersect, lines 410-420: the first sub-result replaces *result, a later
\* one is intersected with it.
IntersectFold(first, result, subResult) ==
    IF first THEN subResult ELSE {k \in subResult : k \in result}

ComplementFold_Difference(result, subResult) ==
    {k \in result : k \notin subResult}

\* Complement, lines 437-447: the ids in exactly one of subResult and *result.
ComplementFold(result, subResult) ==
    {k \in subResult : k \notin result} \cup {k \in result : k \notin subResult}

\* hashScan: one probe of the partition of key, under its read lock.
hashScan(src, idxName, key, limit) ==
    [vals |-> Get(src.hts[key % src.numParts][idxName], key, limit),
     log |-> <<EvRLock(key % src.numParts, idxName),
               EvGet(key % src.numParts, idxName, key),
               EvRUnlock(key % src.numParts, idxName)>>]

RECURSIVE RangeInsert(_, _, _, _)
RangeInsert_LateBreak(vals, i, intLimit, rs) ==
    IF i > Len(vals) THEN rs
    ELSE IF intLimit > 0 /\ rs.counter > intLimit THEN rs
    ELSE RangeInsert(vals, i + 1, intLimit,
                     [rs EXCEPT !.counter = @ + 1, !.result = @ \cup {vals[i]}])

\* IntRange, lines 523-529: insert the ids of one probe until the counter
\* reaches the limit.
RangeInsert(vals, i, intLimit, rs) ==
    IF i > Len(vals) THEN rs
    ELSE IF intLimit > 0 /\ rs.counter = intLimit THEN rs
    ELSE RangeInsert(vals, i + 1, intLimit,
                     [rs EXCEPT !.counter = @ + 1, !.result = @ \cup {vals[i]}])

\* IntRange, lines 517-545: probe every value from lookupValue to to,
\* forward (step 1) or backward (step -1).
RECURSIVE RangeScan(_, _, _, _, _, _, _)
RangeScan(src, htPath, lookupValue, to, step, intLimit, rs) ==
    IF (step = 1 /\ lookupValue > to) \/ (step = -1 /\ lookupValue < to) THEN rs
    ELSE
      LET hashValue == StrHash(IntStr(lookupValue))
          probe == hashScan(src, htPath, hashValue, intLimit)
      IN  RangeScan(src, htPath, lookupValue + step, to, step, intLimit,
                    RangeInsert(probe.vals, 1, intLimit,
                                [rs EXCEPT !.log = @ \o probe.log]))

\* IntRange, lines 512-546, for a checked range: the result, the counter
\* and the log after the scan.
IntRangeScan(from, to, htPath, intLimit, src, st) ==
    RangeScan(src, htPath, from, to, IF from < to THEN 1 ELSE -1, intLimit,
              [result |-> st.result, counter |-> 0, log |-> st.log])

\* The int-to (or int to) of a range expression.
HasIntTo(expr) == "int-to" \in DOMAIN expr \/ "int to" \in DOMAIN expr

IntTo(expr) == IF "int-to" \in DOMAIN expr THEN expr["int-to"] ELSE expr["int to"]

\* IntRange, lines 465-508: the error of a malformed expression.
IntRangeArgsErr(intFrom, expr) ==
    IF "in" \notin DOMAIN expr THEN ErrRangeMissingIn
    ELSE IF expr["in"].ty # "slice" THEN ErrRangeVectorIn
    ELSE IF ~HasNumericLimit(expr) THEN ErrLimit
    ELSE IF intFrom.ty # "float64" THEN ErrIntFrom
    ELSE IF ~HasIntTo(expr) THEN ErrMissingIntTo
    ELSE IF IntTo(expr).ty # "float64" THEN ErrIntTo
    ELSE ""

\* Look for indexed integer values within the specified integer range.
IntRange(intFrom, expr, src, st) ==
    IF IntRangeArgsErr(intFrom, expr) # "" THEN Fail(st, IntRangeArgsErr(intFrom, expr))
    ELSE
      LET vecPath == VecPath(expr["in"])
          intLimit == IntLimit(expr)
          from == FloatToInt(intFrom.v)
          to == FloatToInt(IntTo(expr).v)
          htPath == JoinStr(vecPath, ",")
      IN  IF htPath \notin src.indexPaths THEN Unindexed(st)
          ELSE LET rs == IntRangeScan(from, to, htPath, intLimit, src, st)
               IN  [st EXCEPT !.result = rs.result, !.log = rs.log]

RECURSIVE EvalQuery(_, _, _)

\* Calculate union of sub-query results.
RECURSIVE EvalUnionFrom(_, _, _, _)
EvalUnionFrom(exprs, i, src, st) ==
    IF i > Len(exprs) THEN st
    ELSE LET sub == EvalQuery(exprs[i], src, st)
         IN  IF sub.err # "" THEN sub ELSE EvalUnionFrom(exprs, i + 1, src, sub)

EvalUnion(exprs, src, st) == EvalUnionFrom(exprs, 1, src, st)

\* Calculate intersection of sub-query results.
RECURSIVE IntersectFrom(_, _, _, _, _)
IntersectFrom(exprs, i, first, src, st) ==
    IF i > Len(exprs) THEN st
    ELSE LET sub == EvalQuery(exprs[i], src, [st EXCEPT !.result = {}])
         IN  IF sub.err # "" THEN [st EXCEPT !.err = sub.err, !.log = sub.log]
             ELSE IntersectFrom(exprs, i + 1, FALSE, src,
                    [st EXCEPT !.result = IntersectFold(first, st.result, sub.result),
                               !.log = sub.log])

Intersect(subExprs, src, st) ==
    IF subExprs.ty # "slice" THEN Fail(st, ErrSubQueries)
    ELSE IntersectFrom(subExprs.v, 1, TRUE, src, st)

\* Calculate complement of sub-query results.
RECURSIVE ComplementFrom(_, _, _, _)
ComplementFrom(exprs, i, src, st) ==
    IF i > Len(exprs) THEN st
    ELSE LET sub == EvalQuery(exprs[i], src, [st EXCEPT !.result = {}])
         IN  IF sub.err # "" THEN [st EXCEPT !.err = sub.err, !.log = sub.log]
             ELSE ComplementFrom(exprs, i + 1, src,
                    [st EXCEPT !.result = ComplementFold(st.result, sub.result),
                               !.log = sub.log])

Complement(subExprs, src, st) ==
    IF subExprs.ty # "slice" THEN Fail(st, ErrSubQueries)
    ELSE ComplementFrom(subExprs.v, 1, src, st)

\* EvalQuery, lines 554-564: "all", or a single document number.
EvalString(expr, src, st) ==
    IF expr = "all" THEN EvalAllIDs(src, st)
    ELSE IF ~ParseInt(expr).ok THEN Fail(st, ErrNotDocID)
    ELSE [st EXCEPT !.result = @ \cup {ParseInt(expr).n}]

\* EvalQuery, lines 566-580: the operation of a mapping is the first of these
\* keys that it holds ("" when it holds none).
Operation(expr) ==
    IF "eq" \in DOMAIN expr THEN "eq"
    ELSE IF "has" \in DOMAIN expr THEN "has"
    ELSE IF "n" \in DOMAIN expr THEN "n"
    ELSE IF "c" \in DOMAIN expr THEN "c"
    ELSE IF "int-from" \in DOMAIN expr THEN "int-from"
    ELSE IF "int from" \in DOMAIN expr THEN "int from"
    ELSE ""

\* Main entrance to query processor - evaluate a query and put result into
\* the result set.
EvalQuery(q, src, st) ==
    CASE q.ty = "slice" -> EvalUnion(q.v, src, st)
      [] q.ty = "string" -> EvalString(q.v, src, st)
      [] q.ty = "map" ->
            LET expr == q.v
                op == Operation(expr)
            IN  CASE op = "eq" -> Lookup(expr[op], expr, src, st)
                  [] op = "has" -> PathExistence(expr[op], expr, src, st)
                  [] op = "n" -> Intersect(expr[op], src, st)
                  [] op = "c" -> Complement(expr[op], src, st)
                  [] op \in {"int-from", "int from"} -> IntRange(expr[op], expr, src, st)
                  [] OTHER -> Fail(st, ErrNoOperation)
      [] OTHER -> st

\* db.EvalQuery(q, col, &result) on a result map holding the ids of result.
Eval(q, src, result) == EvalQuery(q, src, [result |-> result, err |-> "", log |-> <<>>])

(***************************************************************************)
(* Part 3. The collections and the queries of the model.                   *)
(***************************************************************************)
\* The number of index partitions (col.db.numParts).
NumParts == 2

\* The longest list of sub-queries.
MaxLen == 2

\* The largest limit of a query.
MaxLimit == 3

Obj1(k, x) == Map(k :> x)

Obj2(k1, x1, k2, x2) == Map(k1 :> x1 @@ k2 :> x2)

\* The documents: ids 1 to 4; 7 and "7" print alike, and "90" hashes like "7".
Docs ==
    1 :> Obj2("n", Num(5), "a", Obj1("b", Num(7)))
    @@ 2 :> Obj2("n", Num(6), "a", Obj1("b", Str("7")))
    @@ 3 :> Obj2("n", Num(7), "a", Arr(<<Obj1("b", Num(1)), Obj1("b", Num(90))>>))
    @@ 4 :> Obj2("n", Num(9), "xs", Arr(<<Num(5), Num(6)>>))

PathN == <<"n">>

PathAB == <<"a", "b">>

\* Index build: one <<key, id>> entry for every non-nil value of every
\* document at the path, in id order.
RECURSIVE IndexEntries(_, _, _)
IndexEntries(docs, vecPath, id) ==
    IF id \notin DOMAIN docs THEN <<>>
    ELSE LET leaves == SelectSeq(GetIn(docs[id], vecPath), LAMBDA x : x.ty # "nil")
         IN  [i \in 1..Len(leaves) |-> <<StrHash(Sprint(leaves[i])), id>>]
             \o IndexEntries(docs, vecPath, id + 1)

\* Entries that no document backs any more: document 3 under the key of "5",
\* and a document 8 that cannot be read under the key of "6".
StaleN == <<<<StrHash("5"), 3>>, <<StrHash("6"), 8>>>>

\* The hash table of one partition: the entries whose key falls in it.
PartOf(entries, part) == SelectSeq(entries, LAMBDA e : e[1] % NumParts = part)

MkCol(docs, entriesN, entriesAB, approx) ==
    [docs |-> docs,
     indexPaths |-> {JoinStr(PathN, INDEX_PATH_SEP), JoinStr(PathAB, INDEX_PATH_SEP)},
     hts |-> [part \in 0..(NumParts - 1) |->
                JoinStr(PathN, INDEX_PATH_SEP) :> PartOf(entriesN, part)
                @@ JoinStr(PathAB, INDEX_PATH_SEP) :> PartOf(entriesAB, part)],
     numParts |-> NumParts,
     approxDocCount |-> approx]

\* A collection whose indexes hold exactly the documents' values, and one
\* with stale entries and a document count that makes has scan in chunks.
ColClean == MkCol(Docs, IndexEntries(Docs, PathN, 1), IndexEntries(Docs, PathAB, 1), 4)

ColStale ==
    MkCol(Docs, IndexEntries(Docs, PathN, 1) \o StaleN, IndexEntries(Docs, PathAB, 1),
          8000 * NumParts)

Collections == {ColClean, ColStale}

JPath(vecPath) == Arr([i \in 1..Len(vecPath) |-> Str(vecPath[i])])

QEq(x, vecPath) == Obj2("eq", x, "in", JPath(vecPath))

QEqLimit(x, vecPath, k) == Map("eq" :> x @@ "in" :> JPath(vecPath) @@ "limit" :> Num(k))

QHas(vecPath) == Obj1("has", JPath(vecPath))

QHasLimit(vecPath, k) == Obj2("has", JPath(vecPath), "limit", Num(k))

QRange(from, to, vecPath) ==
    Map("int-from" :> Num(from) @@ "int-to" :> Num(to) @@ "in" :> JPath(vecPath))

QRangeLimit(from, to, vecPath, k) ==
    Map("int from" :> Num(from) @@ "int to" :> Num(to) @@ "in" :> JPath(vecPath)
        @@ "limit" :> Num(k))

QN(subs) == Obj1("n", Arr(subs))

QC(subs) == Obj1("c", Arr(subs))

\* The leaf queries.
Leaves ==
    {Str("all"), Str("1"), Str("2"), Str("-1"), Str("+3"), Str("x1"), Num(5),
     QEq(Num(7), PathAB), QEq(Str("7"), PathAB), QEq(Num(5), PathN), QEq(Num(6), PathN),
     QEq(Num(5), <<"z">>), Obj1("eq", Num(5)),
     QHas(PathN), QHas(<<"z">>),
     QRange(5, 7, PathN), QRange(7, 5, PathN), QRange(6, 6, PathN), QRange(5, 7, <<"z">>),
     Obj2("int-from", Num(5), "in", JPath(PathN)),
     Obj2("limit", Num(1), "in", JPath(PathN))}
    \cup {QEqLimit(Num(7), PathAB, k) : k \in 0..MaxLimit}
    \cup {QEqLimit(Num(5), PathN, k) : k \in 0..MaxLimit}
    \cup {QHasLimit(PathN, k) : k \in 0..MaxLimit}
    \cup {QRangeLimit(5, 7, PathN, k) : k \in 0..MaxLimit}
    \cup {QRangeLimit(9, 5, PathN, k) : k \in 0..MaxLimit}
    \cup {QEqLimit(Num(5), <<"z">>, 1), QHasLimit(<<"z">>, 1), QRangeLimit(5, 7, <<"z">>, 1),
          QHasLimit(PathN, 5) , Obj2("has", JPath(PathN), "limit", Float(25))}

\* The sub-queries that the combinators of the model combine.
Children ==
    {Str("all"), Str("1"), Str("2"), Str("9"), Str("x1"), QEq(Num(7), PathAB),
     QHasLimit(PathN, 2), QRange(5, 7, PathN)}

Lists(S) == UNION {[1..n -> S] : n \in 0..MaxLen}

Combined(S) ==
    {Arr(l) : l \in Lists(S)} \cup {QN(l) : l \in Lists(S)} \cup {QC(l) : l \in Lists(S)}

Small == {Str("1"), Str("2"), Str("all")}

Pairs(S) == {QN(l) : l \in [1..2 -> S]} \cup {QC(l) : l \in [1..2 -> S]}

\* A combinator inside a combinator, and [q, q] for every other query q.
Nested ==
    Combined({Str("1")} \cup Pairs({Str("1"), Str("2")}))
    \cup {Arr(<<q, q>>) : q \in Leaves \cup Combined(Children)}
    \cup {QC(<<Str("all"), q>>) : q \in Leaves \cup Pairs(Small)}
    \cup {Obj1("n", Str("1")), Obj1("c", Num(1))}

Queries == Leaves \cup Combined(Children) \cup Nested

\* What the caller's result map holds before the call.
Accs == {{}, {1, 9}}

(***************************************************************************)
(* Specification Spec: one call of db.EvalQuery, as in benchmark, on a     *)
(* collection, a query and a result map drawn from the sets above.         *)
(***************************************************************************)
Init ==
    /\ col \in Collections
    /\ query \in Queries
    /\ acc0 \in Accs
    /\ out = [result |-> acc0, err |-> "", log |-> <<>>]
    /\ phase = "ready"
    /\ threads = <<>>
    /\ results = <<>>
    /\ locks = <<>>
    /\ mut = <<>>

Evaluate ==
    /\ phase = "ready"
    /\ out' = Eval(query, col, acc0)
    /\ phase' = "done"
    /\ UNCHANGED <<col, query, acc0, threads, results, locks, mut>>

Next == Evaluate

Spec == Init /\ [][Next]_vars

(***************************************************************************)
(* Part 4. The claims about one evaluation (specification Spec).           *)
(***************************************************************************)
Done == phase = "done"

Succeeded == Done /\ out.err = ""

\* The operation of the query ("" for a query that is no mapping).
QueryOp == IF query.ty = "map" THEN Operation(query.v) ELSE ""

\* The id set a query selects on its own, from an empty result map.
Alone(q) == Eval(q, col, {}).result

SymDiff(A, B) == (A \ B) \cup (B \ A)

RECURSIVE SymDiffFold(_, _, _)
SymDiffFold(R, subs, i) ==
    IF i > Len(subs) THEN R ELSE SymDiffFold(SymDiff(R, Alone(subs[i])), subs, i + 1)

\* C1: a successful union from an empty result map holds the union of what
\* its children select on their own, whatever the kind of the children.
C1_UnionOfChildren ==
    (Succeeded /\ query.ty = "slice" /\ acc0 = {})
        => out.result = UNION {Alone(query.v[i]) : i \in 1..Len(query.v)}

\* C2: a successful {n: [s1..sn]} with n >= 1 leaves the intersection of the
\* children's own id sets in the result map, whatever the map held before;
\* with no children the map is left as it was.
C2_Intersection ==
    (Succeeded /\ QueryOp = "n")
        => LET subs == query.v["n"].v
           IN  IF Len(subs) = 0 THEN out.result = acc0
               ELSE out.result = {k \in Alone(subs[1]) :
                                    \A i \in 1..Len(subs) : k \in Alone(subs[i])}

\* A two-child intersection on a non-empty result map that selects some of
\* each child's ids, not all of them.
C2_Witness ==
    /\ Succeeded /\ QueryOp = "n" /\ acc0 # {}
    /\ Len(query.v["n"].v) = 2
    /\ out.result # {}
    /\ out.result # Alone(query.v["n"].v[1])
    /\ out.result # Alone(query.v["n"].v[2])

\* C3 as stated: {c: [s1..sn]} on a result map holding R0 leaves
\* R0 sym-diff S1 ... sym-diff Sn; {c:["1","2"]} yields {1,2}, {c:["1","1"]}
\* yields {}, and {c:["all", q]} yields the document ids q does not select.
C3_Original ==
    (Succeeded /\ QueryOp = "c")
        => LET subs == query.v["c"].v
           IN  /\ out.result = SymDiffFold(acc0, subs, 1)
               /\ (acc0 = {} /\ subs = <<Str("1"), Str("2")>>) => out.result = {1, 2}
               /\ (acc0 = {} /\ subs = <<Str("1"), Str("1")>>) => out.result = {}
               /\ (acc0 = {} /\ Len(subs) = 2 /\ subs[1] = Str("all"))
                     => out.result = AllIDs(col) \ Alone(subs[2])

\* C3 amended: as C3, but {c:["all", q]} yields the document ids q does not
\* select together with the ids q selects that are no document's.
C3_Complement ==
    (Succeeded /\ QueryOp = "c")
        => LET subs == query.v["c"].v
           IN  /\ out.result = SymDiffFold(acc0, subs, 1)
               /\ (acc0 = {} /\ subs = <<Str("1"), Str("2")>>) => out.result = {1, 2}
               /\ (acc0 = {} /\ subs = <<Str("1"), Str("1")>>) => out.result = {}
               /\ (acc0 = {} /\ Len(subs) = 2 /\ subs[1] = Str("all"))
                     => out.result = (AllIDs(col) \ Alone(subs[2]))
                                        \cup (Alone(subs[2]) \ AllIDs(col))

\* {c:["all", q]} where q selects documents and an id that is no document's.
C3_Witness ==
    /\ Succeeded /\ QueryOp = "c" /\ acc0 = {}
    /\ Len(query.v["c"].v) = 2
    /\ query.v["c"].v[1] = Str("all")
    /\ Alone(query.v["c"].v[2]) \cap AllIDs(col) # {}
    /\ Alone(query.v["c"].v[2]) \ AllIDs(col) # {}
    /\ out.result # {}

\* C4: every id an eq lookup puts into an empty result map is the id of a
\* readable document that has, at the path, a value printing like the
\* looked-up value.
C4_EqSound ==
    (Succeeded /\ QueryOp = "eq" /\ acc0 = {})
        => \A id \in out.result :
              /\ CanRead(col, id)
              /\ \E k \in 1..Len(GetIn(col.docs[id], VecPath(query.v["in"]))) :
                    Sprint(GetIn(col.docs[id], VecPath(query.v["in"]))[k])
                        = Sprint(query.v["eq"])

\* An eq lookup that found a document and whose probe also returned an id
\* that was not inserted.
C4_Witness ==
    /\ Succeeded /\ QueryOp = "eq" /\ acc0 = {}
    /\ out.result # {}
    /\ \E i \in 1..Len(out.log) :
          out.log[i].op = "Read" /\ out.log[i].arg \notin out.result

\* The entries of a hash table, as a set.
Entries(ht) == {ht[i] : i \in 1..Len(ht)}

\* The leaf operations, and the shape each needs to reach its index check.
IsLeafOp == QueryOp \in {"eq", "has", "int-from", "int from"}

IsRangeOp == QueryOp \in {"int-from", "int from"}

WellFormedLeaf ==
    /\ IsLeafOp
    /\ HasNumericLimit(query.v)
    /\ QueryOp = "has" => query.v["has"].ty = "slice"
    /\ QueryOp # "has" => ("in" \in DOMAIN query.v /\ query.v["in"].ty = "slice")
    /\ IsRangeOp => /\ query.v[QueryOp].ty = "float64"
                    /\ HasIntTo(query.v)
                    /\ IntTo(query.v).ty = "float64"

LeafVecPath == VecPath(IF QueryOp = "has" THEN query.v["has"] ELSE query.v["in"])

LeafIndex == JoinStr(LeafVecPath, INDEX_PATH_SEP)

RangeFrom == FloatToInt(query.v[QueryOp].v)

RangeTo == FloatToInt(IntTo(query.v).v)

\* The ids an uncapped leaf query selects.
Uncapped ==
    CASE QueryOp = "eq" ->
            {e[2] : e \in {x \in Entries(col.hts[StrHash(Sprint(query.v["eq"])) % col.numParts]
                                              [LeafIndex]) :
                /\ x[1] = StrHash(Sprint(query.v["eq"]))
                /\ CanRead(col, x[2])
                /\ \E k \in 1..Len(GetIn(col.docs[x[2]], LeafVecPath)) :
                      Sprint(GetIn(col.docs[x[2]], LeafVecPath)[k]) = Sprint(query.v["eq"])}}
      [] QueryOp = "has" ->
            {e[2] : e \in UNION {Entries(col.hts[part][LeafIndex]) :
                                    part \in 0..(col.numParts - 1)}}
      [] OTHER ->
            {e[2] : e \in UNION {
                {x \in Entries(col.hts[StrHash(IntStr(n)) % col.numParts][LeafIndex]) :
                    x[1] = StrHash(IntStr(n))} :
                n \in {m \in RangeFrom..RangeTo : TRUE} \cup {m \in RangeTo..RangeFrom : TRUE}}}

\* C5: with limit k > 0, eq and has leave at most k ids in an empty result
\* map, and a range query counts and inserts at most k ids over all the
\* values of the range; with limit 0 or none, nothing is capped.
C5_LimitHonored ==
    (Succeeded /\ IsLeafOp)
        => LET k == IntLimit(query.v)
           IN  /\ (k > 0 /\ acc0 = {}) => Cardinality(out.result) <= k
               /\ (k > 0 /\ IsRangeOp)
                     => /\ IntRangeScan(RangeFrom, RangeTo, LeafIndex, k, col,
                                         [result |-> acc0, err |-> "", log |-> <<>>]).counter <= k
                        /\ Cardinality(out.result \ acc0) <= k
               /\ k = 0 => out.result = acc0 \cup Uncapped

\* A range query over several values whose limit stopped it short of the
\* ids the range holds, after more than one probe.
C5_Witness ==
    /\ Succeeded /\ IsRangeOp /\ acc0 = {}
    /\ IntLimit(query.v) > 0
    /\ Cardinality(out.result) = IntLimit(query.v)
    /\ Cardinality(Uncapped) > IntLimit(query.v)
    /\ Len(out.log) > 3
    /\ \E i \in 1..Len(out.log) : out.log[i].op = "Get" /\ i > 3

\* C6: a well-formed eq, has or range node on a path that is not indexed
\* returns the index error, probes no index, takes no lock, and leaves the
\* result map as it was.
C6_Unindexed ==
    (Done /\ WellFormedLeaf /\ LeafIndex \notin col.indexPaths)
        => /\ out.err = ErrIndex
           /\ out.result = acc0
           /\ out.log = <<>>

\* A range query on an unindexed path, evaluated on a non-empty result map.
C6_Witness ==
    /\ Done /\ WellFormedLeaf /\ IsRangeOp
    /\ LeafIndex \notin col.indexPaths
    /\ acc0 # {}

\* C7: [q, q] evaluated from an empty result map selects what q selects, for
\* every q that evaluates, n and c nodes included.
C7_UnionIdempotent ==
    (Succeeded /\ acc0 = {} /\ query.ty = "slice" /\ Len(query.v) = 2
        /\ query.v[1] = query.v[2])
        => out.result = Alone(query.v[1])

\* C9: after a successful evaluation from an empty result map every id in
\* the map is a non-negative integer, document-id strings included.
C9_NonNegativeIds ==
    (Succeeded /\ acc0 = {}) => \A id \in out.result : id >= 0

(***************************************************************************)
(* Part 5. The query goroutines of benchmark2 (lines 219-233), the         *)
(* evaluator run one statement on the collection at a time.  A goroutine   *)
(* is a record                                                             *)
(*   q      its query                                                      *)
(*   stack  the frames of its calls, innermost last                        *)
(*   subs   the subResult maps of the Intersect and Complement calls on    *)
(*          the stack, innermost last                                      *)
(*   err    the error db.EvalQuery returned ("" is nil)                    *)
(* and its result map is results[ResultSlot(t)].                           *)
(***************************************************************************)
\* numThreads of benchmark2.
NumThreads == 2

\* The query goroutines that run.
Threads == DOMAIN threads

ResultSlot_Shared(t) == 1

\* benchmark2, line 226: each goroutine makes the result map of its query.
ResultSlot(t) == t

\* One sync.RWMutex for every hash table: the read locks each goroutine
\* holds, and the writer ("none", "waiting" in Lock(), or "held").
LockIds(src) == {<<part, idx>> : part \in 0..(src.numParts - 1), idx \in src.indexPaths}

\* ht.Lock.RLock() returns while no writer holds the lock or waits for it.
CanRLock(lk, l) == lk[l].writer = "none"

RLock(lk, l, t) == [lk EXCEPT ![l].readers[t] = @ + 1]

RUnlock_Forgotten(lk, l, t) == lk

\* ht.Lock.RUnlock().
RUnlock(lk, l, t) == [lk EXCEPT ![l].readers[t] = @ - 1]

\* ht.Lock.Lock() returns when the readers have released the lock.
CanLock(lk, l) == lk[l].writer = "waiting" /\ \A t \in Threads : lk[l].readers[t] = 0

FrEval(q) == [fn |-> "EvalQuery", q |-> q]

FrUnion(exprs, i) == [fn |-> "EvalUnion", exprs |-> exprs, i |-> i]

FrFold(fn, exprs) == [fn |-> fn, exprs |-> exprs, i |-> 1, first |-> TRUE, pc |-> "call"]

FrLookup(expr) == [fn |-> "Lookup", expr |-> expr, pc |-> "RLock", vals |-> <<>>, i |-> 1]

FrHas(expr, partDiv) ==
    [fn |-> "PathExistence", expr |-> expr, pc |-> "RLock", partDiv |-> partDiv,
     iteratePart |-> 0, i |-> 0, counter |-> 0]

FrRange(expr, from) ==
    [fn |-> "IntRange", expr |-> expr, pc |-> "RLock",
     lookupValue |-> from, counter |-> 0, vals |-> <<>>]

\* The values Lookup, PathExistence and IntRange compute from the expression.
LookupHash(expr) == StrHash(Sprint(expr["eq"]))

LookupPath(expr) == JoinStr(VecPath(expr["in"]), INDEX_PATH_SEP)

LookupLock(expr, src) == <<LookupHash(expr) % src.numParts, LookupPath(expr)>>

HasPath(expr) == JoinStr(VecPath(expr["has"]), INDEX_PATH_SEP)

RangePath(expr) == JoinStr(VecPath(expr["in"]), ",")

RangeFromOf(expr) == FloatToInt(expr[Operation(expr)].v)

RangeToOf(expr) == FloatToInt(IntTo(expr).v)

RangeStep(expr) == IF RangeFromOf(expr) < RangeToOf(expr) THEN 1 ELSE -1

RangeLock(fr, src) ==
    <<StrHash(IntStr(fr.lookupValue)) % src.numParts, RangePath(fr.expr)>>

Front(s) == SubSeq(s, 1, Len(s) - 1)

WithTop(s, x) == Append(Front(s), x)

Finished(t) == threads[t].stack = <<>>

Top(t) == threads[t].stack[Len(threads[t].stack)]

Running(t, fn) == ~Finished(t) /\ Top(t).fn = fn

\* The result maps goroutine t can reach: the caller's, then the subResults.
Maps(t) == <<results[ResultSlot(t)]>> \o threads[t].subs

\* The map *result points to in the innermost call.
Cur(t) == Maps(t)[Len(Maps(t))]

SetCur(accs, S) == [accs EXCEPT ![Len(accs)] = S]

\* One step of goroutine t: its new stack, result maps and error.
Update(t, stack, accs, err) ==
    /\ threads' = [threads EXCEPT ![t] =
                      [q |-> @.q, stack |-> stack, subs |-> Tail(accs), err |-> err]]
    /\ results' = [results EXCEPT ![ResultSlot(t)] = accs[1]]

\* Return from the innermost call.
Return(t, accs) == Update(t, Front(threads[t].stack), accs, "")

\* Stay in the innermost call, at frame fr.
Goto(t, fr, accs) == Update(t, WithTop(threads[t].stack, fr), accs, "")

\* Every caller returns the error at once (lines 288-290, 407-409, 434-436).
ReturnErr(t, err) == Update(t, <<>>, <<Maps(t)[1]>>, err)

\* EvalQuery, case []interface{}: call EvalUnion.
EvalQueryUnion(t) ==
    /\ Running(t, "EvalQuery")
    /\ Top(t).q.ty = "slice"
    /\ Goto(t, FrUnion(Top(t).q.v, 1), Maps(t))
    /\ UNCHANGED <<col, locks, mut, pvars>>

\* EvalUnion: evaluate the next sub-query, or return after the last.
EvalUnionNext(t) ==
    /\ Running(t, "EvalUnion")
    /\ LET fr == Top(t)
       IN  IF fr.i > Len(fr.exprs) THEN Return(t, Maps(t))
           ELSE Update(t, Append(WithTop(threads[t].stack, FrUnion(fr.exprs, fr.i + 1)),
                                 FrEval(fr.exprs[fr.i])),
                       Maps(t), "")
    /\ UNCHANGED <<col, locks, mut, pvars>>

\* EvalQuery, case string: "all" (EvalAllIDs) or a document number.
EvalQueryString(t) ==
    /\ Running(t, "EvalQuery")
    /\ Top(t).q.ty = "string"
    /\ LET st == EvalString(Top(t).q.v, col, [result |-> Cur(t), err |-> "", log |-> <<>>])
       IN  IF st.err # "" THEN ReturnErr(t, st.err)
           ELSE Return(t, SetCur(Maps(t), st.result))
    /\ UNCHANGED <<col, locks, mut, pvars>>

\* EvalQuery: a value of another type returns nil, a mapping without any
\* operation returns an error.
EvalQueryOther(t) ==
    /\ Running(t, "EvalQuery")
    /\ \/ /\ Top(t).q.ty \notin {"slice", "string", "map"}
          /\ Return(t, Maps(t))
       \/ /\ Top(t).q.ty = "map"
          /\ Operation(Top(t).q.v) = ""
          /\ ReturnErr(t, ErrNoOperation)
    /\ UNCHANGED <<col, locks, mut, pvars>>

\* EvalQuery, n or c: call Intersect or Complement.
EvalQueryCombinator(t) ==
    /\ Running(t, "EvalQuery")
    /\ Top(t).q.ty = "map"
    /\ Operation(Top(t).q.v) \in {"n", "c"}
    /\ LET op == Operation(Top(t).q.v)
           subExprs == Top(t).q.v[op]
       IN  IF subExprs.ty # "slice" THEN ReturnErr(t, ErrSubQueries)
           ELSE Goto(t, FrFold(IF op = "n" THEN "Intersect" ELSE "Complement", subExprs.v),
                     Maps(t))
    /\ UNCHANGED <<col, locks, mut, pvars>>

\* Intersect and Complement: evaluate the next sub-query into a new
\* subResult, or return after the last.
CombinatorCall(t) ==
    /\ ~Finished(t)
    /\ Top(t).fn \in {"Intersect", "Complement"}
    /\ Top(t).pc = "call"
    /\ LET fr == Top(t)
       IN  IF fr.i > Len(fr.exprs) THEN Return(t, Maps(t))
           ELSE Update(t, Append(WithTop(threads[t].stack, [fr EXCEPT !.pc = "fold"]),
                                 FrEval(fr.exprs[fr.i])),
                       Append(Maps(t), {}), "")
    /\ UNCHANGED <<col, locks, mut, pvars>>

\* Intersect, lines 410-420: fold the subResult into *result.
IntersectFoldStep(t) ==
    /\ Running(t, "Intersect")
    /\ Top(t).pc = "fold"
    /\ LET fr == Top(t)
           subResult == Cur(t)
           rest == Front(Maps(t))
       IN  Goto(t, [fr EXCEPT !.pc = "call", !.i = @ + 1, !.first = FALSE],
                SetCur(rest, IntersectFold(fr.first, rest[Len(rest)], subResult)))
    /\ UNCHANGED <<col, locks, mut, pvars>>

\* Complement, lines 437-447: fold the subResult into *result.
ComplementFoldStep(t) ==
    /\ Running(t, "Complement")
    /\ Top(t).pc = "fold"
    /\ LET fr == Top(t)
           subResult == Cur(t)
           rest == Front(Maps(t))
       IN  Goto(t, [fr EXCEPT !.pc = "call", !.i = @ + 1],
                SetCur(rest, ComplementFold(rest[Len(rest)], subResult)))
    /\ UNCHANGED <<col, locks, mut, pvars>>

\* EvalQuery, eq: Lookup up to its index check (lines 306-333).
EvalQueryLookup(t) ==
    /\ Running(t, "EvalQuery")
    /\ Top(t).q.ty = "map"
    /\ Operation(Top(t).q.v) = "eq"
    /\ LET expr == Top(t).q.v
       IN  IF LookupArgsErr(expr) # "" THEN ReturnErr(t, LookupArgsErr(expr))
           ELSE IF LookupPath(expr) \notin col.indexPaths THEN ReturnErr(t, ErrIndex)
           ELSE Goto(t, FrLookup(expr), Maps(t))
    /\ UNCHANGED <<col, locks, mut, pvars>>

\* Lookup, line 336.
LookupRLock(t) ==
    /\ Running(t, "Lookup")
    /\ Top(t).pc = "RLock"
    /\ CanRLock(locks, LookupLock(Top(t).expr, col))
    /\ locks' = RLock(locks, LookupLock(Top(t).expr, col), t)
    /\ Goto(t, [Top(t) EXCEPT !.pc = "Get"], Maps(t))
    /\ UNCHANGED <<col, mut, pvars>>

\* Lookup, line 337.
LookupGet(t) ==
    /\ Running(t, "Lookup")
    /\ Top(t).pc = "Get"
    /\ LET fr == Top(t)
           l == LookupLock(fr.expr, col)
       IN  Goto(t, [fr EXCEPT !.pc = "RUnlock",
                              !.vals = Get(col.hts[l[1]][l[2]], LookupHash(fr.expr),
                                           IntLimit(fr.expr))],
                Maps(t))
    /\ UNCHANGED <<col, locks, mut, pvars>>

\* Lookup, line 338; without candidates the loop of line 339 is over.
LookupRUnlock(t) ==
    /\ Running(t, "Lookup")
    /\ Top(t).pc = "RUnlock"
    /\ locks' = RUnlock(locks, LookupLock(Top(t).expr, col), t)
    /\ IF Top(t).vals = <<>> THEN Return(t, Maps(t))
       ELSE Goto(t, [Top(t) EXCEPT !.pc = "Filter", !.i = 1], Maps(t))
    /\ UNCHANGED <<col, mut, pvars>>

\* Lookup, lines 339-349: read the next candidate and insert it when it
\* matches; return after the last.
LookupFilter(t) ==
    /\ Running(t, "Lookup")
    /\ Top(t).pc = "Filter"
    /\ LET fr == Top(t)
           maps == SetCur(Maps(t),
                      Cur(t) \cup LookupMatches(<<fr.vals[fr.i]>>, VecPath(fr.expr["in"]),
                                                Sprint(fr.expr["eq"]), col))
       IN  IF fr.i = Len(fr.vals) THEN Return(t, maps)
           ELSE Goto(t, [fr EXCEPT !.i = @ + 1], maps)
    /\ UNCHANGED <<col, locks, mut, pvars>>

\* EvalQuery, has: PathExistence up to its first partition (lines 354-381).
EvalQueryPathExistence(t) ==
    /\ Running(t, "EvalQuery")
    /\ Top(t).q.ty = "map"
    /\ Operation(Top(t).q.v) = "has"
    /\ LET expr == Top(t).q.v
       IN  IF PathExistenceArgsErr(expr["has"], expr) # ""
           THEN ReturnErr(t, PathExistenceArgsErr(expr["has"], expr))
           ELSE IF HasPath(expr) \notin col.indexPaths THEN ReturnErr(t, ErrIndex)
           ELSE Goto(t, FrHas(expr, PartDiv(col)), Maps(t))
    /\ UNCHANGED <<col, locks, mut, pvars>>

\* PathExistence, line 383.
HasRLock(t) ==
    /\ Running(t, "PathExistence")
    /\ Top(t).pc = "RLock"
    /\ CanRLock(locks, <<Top(t).iteratePart, HasPath(Top(t).expr)>>)
    /\ locks' = RLock(locks, <<Top(t).iteratePart, HasPath(Top(t).expr)>>, t)
    /\ Goto(t, [Top(t) EXCEPT !.pc = "GetPartition", !.i = 0], Maps(t))
    /\ UNCHANGED <<col, mut, pvars>>

\* PathExistence, lines 384-394: where the scan of one chunk leaves the loop.
AfterChunk(hit, i, partDiv) ==
    IF hit THEN "RUnlockReturn" ELSE IF i + 1 < partDiv THEN "GetPartition" ELSE "RUnlock"

\* PathExistence, lines 385-393: one chunk of the partition.
HasGetPartition(t) ==
    /\ Running(t, "PathExistence")
    /\ Top(t).pc = "GetPartition"
    /\ LET fr == Top(t)
           ids == GetPartition(col.hts[fr.iteratePart][HasPath(fr.expr)], fr.i, fr.partDiv)
           sc == ScanIDs(ids, 1, IntLimit(fr.expr),
                         [result |-> Cur(t), counter |-> fr.counter, hit |-> FALSE])
           pc == AfterChunk(sc.hit, fr.i, fr.partDiv)
       IN  Goto(t, [fr EXCEPT !.pc = pc, !.i = @ + 1, !.counter = sc.counter],
                SetCur(Maps(t), sc.result))
    /\ UNCHANGED <<col, locks, mut, pvars>>

\* PathExistence, lines 390-391: the limit is reached, unlock and return.
HasRUnlockReturn(t) ==
    /\ Running(t, "PathExistence")
    /\ Top(t).pc = "RUnlockReturn"
    /\ locks' = RUnlock(locks, <<Top(t).iteratePart, HasPath(Top(t).expr)>>, t)
    /\ Return(t, Maps(t))
    /\ UNCHANGED <<col, mut, pvars>>

\* PathExistence, line 395, then line 381: the partition is exhausted,
\* unlock it and go to the next one.
HasRUnlockNext(t) ==
    /\ Running(t, "PathExistence")
    /\ Top(t).pc = "RUnlock"
    /\ Top(t).iteratePart + 1 < col.numParts
    /\ locks' = RUnlock(locks, <<Top(t).iteratePart, HasPath(Top(t).expr)>>, t)
    /\ Goto(t, [Top(t) EXCEPT !.pc = "RLock", !.iteratePart = @ + 1], Maps(t))
    /\ UNCHANGED <<col, mut, pvars>>

\* PathExistence, line 395, then line 397: the last partition is exhausted,
\* unlock it and return.
HasRUnlockLast(t) ==
    /\ Running(t, "PathExistence")
    /\ Top(t).pc = "RUnlock"
    /\ Top(t).iteratePart + 1 >= col.numParts
    /\ locks' = RUnlock(locks, <<Top(t).iteratePart, HasPath(Top(t).expr)>>, t)
    /\ Return(t, Maps(t))
    /\ UNCHANGED <<col, mut, pvars>>

\* EvalQuery, int-from: IntRange up to its first probe (lines 465-519).
EvalQueryIntRange(t) ==
    /\ Running(t, "EvalQuery")
    /\ Top(t).q.ty = "map"
    /\ Operation(Top(t).q.v) \in {"int-from", "int from"}
    /\ LET expr == Top(t).q.v
           intFrom == expr[Operation(expr)]
       IN  IF IntRangeArgsErr(intFrom, expr) # ""
           THEN ReturnErr(t, IntRangeArgsErr(intFrom, expr))
           ELSE IF RangePath(expr) \notin col.indexPaths THEN ReturnErr(t, ErrIndex)
           ELSE Goto(t, FrRange(expr, RangeFromOf(expr)), Maps(t))
    /\ UNCHANGED <<col, locks, mut, pvars>>

\* hashScan, line 457.
RangeRLock(t) ==
    /\ Running(t, "IntRange")
    /\ Top(t).pc = "RLock"
    /\ CanRLock(locks, RangeLock(Top(t), col))
    /\ locks' = RLock(locks, RangeLock(Top(t), col), t)
    /\ Goto(t, [Top(t) EXCEPT !.pc = "Get"], Maps(t))
    /\ UNCHANGED <<col, mut, pvars>>

\* hashScan, line 458.
RangeGet(t) ==
    /\ Running(t, "IntRange")
    /\ Top(t).pc = "Get"
    /\ LET fr == Top(t)
           l == RangeLock(fr, col)
       IN  Goto(t, [fr EXCEPT !.pc = "RUnlock",
                              !.vals = Get(col.hts[l[1]][l[2]], StrHash(IntStr(fr.lookupValue)),
                                           IntLimit(fr.expr))],
                Maps(t))
    /\ UNCHANGED <<col, locks, mut, pvars>>

\* IntRange, lines 519 and 533: the probe of lookupValue is the last one.
RangeLast(fr) ==
    LET next == fr.lookupValue + RangeStep(fr.expr)
    IN  \/ RangeStep(fr.expr) = 1 /\ next > RangeToOf(fr.expr)
        \/ RangeStep(fr.expr) = -1 /\ next < RangeToOf(fr.expr)

\* IntRange, lines 523-529: insert the ids of the probe until the limit.
RangeInserted(t) ==
    RangeInsert(Top(t).vals, 1, IntLimit(Top(t).expr),
                [result |-> Cur(t), counter |-> Top(t).counter, log |-> <<>>])

\* hashScan, line 459, then IntRange, lines 523-529: unlock, insert the ids
\* of the probe and go to the next value.
RangeRUnlockNext(t) ==
    /\ Running(t, "IntRange")
    /\ Top(t).pc = "RUnlock"
    /\ ~RangeLast(Top(t))
    /\ locks' = RUnlock(locks, RangeLock(Top(t), col), t)
    /\ Goto(t, [Top(t) EXCEPT !.pc = "RLock", !.lookupValue = @ + RangeStep(Top(t).expr),
                              !.counter = RangeInserted(t).counter, !.vals = <<>>],
            SetCur(Maps(t), RangeInserted(t).result))
    /\ UNCHANGED <<col, mut, pvars>>

\* hashScan, line 459, then IntRange, lines 523-529 and 546: unlock, insert
\* the ids of the last probe and return.
RangeRUnlockLast(t) ==
    /\ Running(t, "IntRange")
    /\ Top(t).pc = "RUnlock"
    /\ RangeLast(Top(t))
    /\ locks' = RUnlock(locks, RangeLock(Top(t), col), t)
    /\ Return(t, SetCur(Maps(t), RangeInserted(t).result))
    /\ UNCHANGED <<col, mut, pvars>>

\* One step of query goroutine t.
QueryStep(t) ==
    \/ EvalQueryUnion(t)
    \/ EvalUnionNext(t)
    \/ EvalQueryString(t)
    \/ EvalQueryOther(t)
    \/ EvalQueryCombinator(t)
    \/ CombinatorCall(t)
    \/ IntersectFoldStep(t)
    \/ ComplementFoldStep(t)
    \/ EvalQueryLookup(t)
    \/ LookupRLock(t)
    \/ LookupGet(t)
    \/ LookupRUnlock(t)
    \/ LookupFilter(t)
    \/ EvalQueryPathExistence(t)
    \/ HasRLock(t)
    \/ HasGetPartition(t)
    \/ HasRUnlockReturn(t)
    \/ HasRUnlockNext(t)
    \/ HasRUnlockLast(t)
    \/ EvalQueryIntRange(t)
    \/ RangeRLock(t)
    \/ RangeGet(t)
    \/ RangeRUnlockNext(t)
    \/ RangeRUnlockLast(t)

\* col.Insert, col.Update and col.Delete as the statements they make on the
\* collection: a document written or erased in the document store, an entry
\* put into or removed from a hash table under its write lock.
StWrite(id, doc) == [k |-> "write", id |-> id, doc |-> doc]

StErase(id) == [k |-> "erase", id |-> id]

StEntries(k, id, doc, vecPath) ==
    LET es == IndexEntries(id :> doc, vecPath, id)
    IN  [i \in 1..Len(es) |->
            [k |-> k, idx |-> JoinStr(vecPath, INDEX_PATH_SEP), key |-> es[i][1], id |-> id]]

\* The statements that index a document (k = "put") or unindex it ("remove").
StIndex(k, id, doc) == StEntries(k, id, doc, PathN) \o StEntries(k, id, doc, PathAB)

ColInsert(id, doc) == <<StWrite(id, doc)>> \o StIndex("put", id, doc)

ColUpdate(id, old, doc) ==
    StIndex("remove", id, old) \o <<StWrite(id, doc)>> \o StIndex("put", id, doc)

ColDelete(id, old) == StIndex("remove", id, old) \o <<StErase(id)>>

\* What the mutating goroutines of benchmark2 do, each its one call: the
\* insert goroutine inserts a document 5, the update goroutine changes n of
\* document 4, the delete goroutine deletes document 1.
MutOps ==
    [Insert |-> ColInsert(5, Obj1("n", Num(6))),
     Update |-> ColUpdate(4, Docs[4], Obj1("n", Num(6))),
     Delete |-> ColDelete(1, Docs[1])]

\* The mutating goroutines, each at the first statement of its call.
MutStart == [m \in DOMAIN MutOps |-> [pc |-> "run", prog |-> MutOps[m]]]

Mutators == DOMAIN mut

\* The statement mutating goroutine m is at.
MutStmt(m) == Head(mut[m].prog)

MutLockOf(st, src) == <<st.key % src.numParts, st.idx>>

\* After a statement: the next one, or the call has returned.
MutAfter(m) ==
    [mut EXCEPT ![m] = [pc |-> IF Len(@.prog) = 1 THEN "done" ELSE "run",
                        prog |-> Tail(@.prog)]]

\* The document store: a document is written (a new one makes
\* ApproxDocCount grow) or erased.
MutDoc(m) ==
    /\ mut[m].pc = "run"
    /\ MutStmt(m).k \in {"write", "erase"}
    /\ LET st == MutStmt(m)
       IN  col' = IF st.k = "erase"
                  THEN [col EXCEPT !.docs = [id \in DOMAIN col.docs \ {st.id} |-> col.docs[id]]]
                  ELSE [col EXCEPT !.docs = (st.id :> st.doc) @@ col.docs,
                                   !.approxDocCount =
                                       IF st.id \in DOMAIN col.docs THEN @ ELSE @ + 1]
    /\ mut' = MutAfter(m)
    /\ UNCHANGED <<threads, results, locks, pvars>>

\* An index: Lock() is called on the hash table of the entry; behind another
\* writer it blocks, else it keeps new readers out ...
MutLock(m) ==
    /\ mut[m].pc = "run"
    /\ MutStmt(m).k \in {"put", "remove"}
    /\ locks[MutLockOf(MutStmt(m), col)].writer = "none"
    /\ locks' = [locks EXCEPT ![MutLockOf(MutStmt(m), col)].writer = "waiting"]
    /\ mut' = [mut EXCEPT ![m].pc = "waiting"]
    /\ UNCHANGED <<col, threads, results, pvars>>

\* ... returns once the readers are gone ...
MutLocked(m) ==
    /\ mut[m].pc = "waiting"
    /\ CanLock(locks, MutLockOf(MutStmt(m), col))
    /\ locks' = [locks EXCEPT ![MutLockOf(MutStmt(m), col)].writer = "held"]
    /\ mut' = [mut EXCEPT ![m].pc = "locked"]
    /\ UNCHANGED <<col, threads, results, pvars>>

\* ... and the entry is put or removed and the hash table unlocked; nobody
\* reads or writes the table in between.
MutWrite(m) ==
    /\ mut[m].pc = "locked"
    /\ LET l == MutLockOf(MutStmt(m), col)
           entry == <<MutStmt(m).key, MutStmt(m).id>>
       IN  col' = [col EXCEPT !.hts[l[1]][l[2]] =
                      IF MutStmt(m).k = "remove" THEN SelectSeq(@, LAMBDA x : x # entry)
                      ELSE Append(@, entry)]
    /\ locks' = [locks EXCEPT ![MutLockOf(MutStmt(m), col)].writer = "none"]
    /\ mut' = MutAfter(m)
    /\ UNCHANGED <<threads, results, pvars>>

\* One step of mutating goroutine m.
MutStep(m) ==
    \/ MutDoc(m)
    \/ MutLock(m)
    \/ MutLocked(m)
    \/ MutWrite(m)

\* The queries of the goroutines: the shape of sampleQuery, an intersection
\* with a capped scan, a full scan, a capped backward range.
ConcQueries ==
    {Arr(<<QC(<<QEq(Num(7), PathAB), Str("1")>>), QRange(6, 6, PathN)>>),
     QN(<<QHasLimit(PathN, 2), Num(5)>>),
     QHas(PathN),
     QRangeLimit(7, 5, PathN, 2)}

NewThread(q) == [q |-> q, stack |-> <<FrEval(q)>>, subs |-> <<>>, err |-> ""]

\* What the goroutines start from, whatever their queries.
InitShared(c, m) ==
    /\ col = c
    /\ results = [t \in Threads |-> {}]
    /\ locks = [l \in LockIds(col) |->
                  [readers |-> [t \in Threads |-> 0], writer |-> "none"]]
    /\ mut = m
    /\ query = Nil
    /\ acc0 = {}
    /\ out = [result |-> {}, err |-> "", log |-> <<>>]
    /\ phase = "goroutines"

\* Every goroutine evaluates one of the queries.
InitThreads ==
    /\ threads \in [1..NumThreads -> {NewThread(q) : q \in ConcQueries}]
    /\ InitShared(ColStale, <<>>)

\* The queries of the goroutines that run beside the mutating goroutines, one
\* goroutine for each: the shape of sampleQuery with a range of two probes,
\* and a complement of a capped scan, which returns from the first
\* partition, with a scan that unlocks and leaves every partition.
MutQueries ==
    <<Arr(<<QC(<<QEq(Num(7), PathAB), Str("1")>>), QRange(6, 7, PathN)>>),
      QN(<<QHasLimit(PathN, 2), QHas(PathN), Num(5)>>)>>

\* The collection of benchmark2: with one more document, has scans its
\* partitions in two chunks.
ColBusy == [ColStale EXCEPT !.approxDocCount = 8000 * NumParts - 1]

InitMutators ==
    /\ threads = [t \in DOMAIN MutQueries |-> NewThread(MutQueries[t])]
    /\ InitShared(ColBusy, MutStart)

NextQueries == \E t \in 1..NumThreads : QueryStep(t)

NextMutators ==
    \/ \E t \in DOMAIN MutQueries : QueryStep(t)
    \/ \E m \in DOMAIN MutOps : MutStep(m)

\* The query goroutines on a collection that nobody changes.
SpecQueries == InitThreads /\ [][NextQueries]_vars

\* The query goroutines beside the goroutines that insert, update and delete.
SpecMutators == InitMutators /\ [][NextMutators]_vars


(***************************************************************************)
(* Part 6. The goroutines against the claims.                              *)
(***************************************************************************)
\* The read locks goroutine t holds.
RECURSIVE HeldIn(_, _)
HeldIn(t, ls) ==
    IF ls = {} THEN 0
    ELSE LET l == CHOOSE x \in ls : TRUE
         IN  locks[l].readers[t] + HeldIn(t, ls \ {l})

Held(t) == HeldIn(t, LockIds(col))

\* Goroutine t is between the RLock and the RUnlock of a probe or a scan.
InLockedSection(t) ==
    /\ ~Finished(t)
    /\ Top(t).fn \in {"Lookup", "PathExistence", "IntRange"}
    /\ Top(t).pc \in {"Get", "GetPartition", "RUnlock", "RUnlockReturn"}

\* Claim C8: when the goroutines evaluate their queries at the same time on
\* one collection that nobody changes, each into its own result map, every
\* query returns, whatever the interleaving, the ids (and the error) it
\* returns when it is evaluated alone.
C8_ConcurrentSafety ==
    \A t \in Threads :
        Finished(t) =>
            /\ results[ResultSlot(t)] = Eval(threads[t].q, col, {}).result
            /\ threads[t].err = Eval(threads[t].q, col, {}).err

\* Two goroutines with different queries have both returned, one of them
\* with ids.
C8_Witness ==
    \E t, u \in Threads :
        /\ Finished(t) /\ Finished(u)
        /\ threads[t].q # threads[u].q
        /\ results[ResultSlot(t)] # {}
        /\ results[ResultSlot(t)] # results[ResultSlot(u)]

\* The hash table goroutine t calls RLock on.
RLockOf(t) ==
    CASE Top(t).fn = "Lookup" -> LookupLock(Top(t).expr, col)
      [] Top(t).fn = "PathExistence" -> <<Top(t).iteratePart, HasPath(Top(t).expr)>>
      [] Top(t).fn = "IntRange" -> RangeLock(Top(t), col)

\* Goroutine t is in RLock behind a writer.
WaitsInRLock(t) ==
    /\ ~Finished(t)
    /\ Top(t).fn \in {"Lookup", "PathExistence", "IntRange"}
    /\ Top(t).pc = "RLock"
    /\ locks[RLockOf(t)].writer # "none"

\* Mutating goroutine m is in Lock behind another writer.
WaitsInLock(m) ==
    /\ mut[m].pc = "run"
    /\ MutStmt(m).k \in {"put", "remove"}
    /\ locks[MutLockOf(MutStmt(m), col)].writer # "none"

\* The hash table mutating goroutine m locks.
LockOf(m) == MutLockOf(MutStmt(m), col)

\* The writer of hash table l can go on: it holds the lock and can step, or
\* it waits for readers of which one can step.
WriterCanGoOn(l) ==
    \E m \in Mutators :
        /\ mut[m].pc \in {"waiting", "locked"}
        /\ LockOf(m) = l
        /\ IF mut[m].pc = "waiting"
           THEN \/ ENABLED MutLocked(m)
                \/ \E t \in Threads : locks[l].readers[t] > 0 /\ ENABLED QueryStep(t)
           ELSE ENABLED MutStep(m)

\* Claim C10: a goroutine evaluating a query holds at most one read lock, it
\* holds one only between the RLock and the RUnlock of a probe or a scan,
\* so none when the operator has returned, the return of the has scan at
\* its limit included; and beside goroutines that write-lock the same hash
\* tables nobody waits for a lock in a cycle: a goroutine in RLock or Lock
\* behind a writer waits for a writer that can go on, and a writer that
\* waits for its readers waits for one that can step.
C10_LockDiscipline ==
    /\ \A t \in Threads :
          /\ Held(t) <= 1
          /\ Held(t) = 1 <=> InLockedSection(t)
          /\ \A l \in LockIds(col) : locks[l].readers[t] > 0 => locks[l].writer # "held"
    /\ \A t \in Threads : WaitsInRLock(t) => WriterCanGoOn(RLockOf(t))
    /\ \A m \in Mutators :
          /\ WaitsInLock(m) => WriterCanGoOn(LockOf(m))
          /\ mut[m].pc = "waiting" => WriterCanGoOn(LockOf(m))

\* The has scan has reached its limit under the read lock a mutating
\* goroutine waits for, while another mutating goroutine holds a write lock.
C10_Witness ==
    \E t \in Threads, m, w \in Mutators :
        /\ Running(t, "PathExistence")
        /\ Top(t).pc = "RUnlockReturn"
        /\ mut[m].pc = "waiting"
        /\ locks[MutLockOf(MutStmt(m), col)].readers[t] = 1
        /\ mut[w].pc = "locked"

====
